---- MODULE Spec2Model ----
(***************************************************************************)
(* The resilient real-time event channel of the task manager front end:    *)
(* WebSocketService (frontend/src/services/websocket.js) and the hook      *)
(* useWebSocket (frontend/src/contexts/AuthContext.js) that drives it.     *)
(*                                                                         *)
(* One action models one task of the browser's event loop: a consumer      *)
(* call, the expiry of a timer, or one event of a socket, each with the    *)
(* promise reactions (microtasks) it triggers.  When a connection fails    *)
(* the browser fires `error` and then `close` on the socket in the same    *)
(* task; the two handlers are two steps of the model, and inTask keeps     *)
(* every other task out between them.                                      *)
(***************************************************************************)
EXTENDS Integers, Sequences, FiniteSets, Bags, TLC

\* ---- program constants (WebSocketService.constructor, _attemptReconnect) ----
maxReconnectAttempts == 5
baseReconnectDelay == 1000
maxReconnectDelay == 30000
maxMissedHeartbeats == 3
jitterRange == 1000

\* ---- bounds of the model ----
MaxSockets == 2          \* sockets not yet closed at once, in Spec
MaxFailSockets == 7      \* sockets created in one behaviour of SpecFail
MaxTimers == 2           \* retry timers pending at once
MaxReconnectTimers == 1  \* reconnect() timers of the hook pending at once
MissedCap == 3           \* heartbeat ticks counted without inbound traffic
MaxSubs == 3             \* unsubscribe functions returned by on() and not yet called
MaxSent == 1             \* frames transmitted by send()
MaxStatusSubs == 2       \* unsubscribe functions of onStatusChange() not yet called
MaxArrivals == 52        \* task messages the hook handles in one behaviour
MaxVaried == 2           \* of which the first may be of any task type

Statuses == {"disconnected", "connecting", "connected", "error"}
\* getToken() / getUserRoleFromToken(): no token, a token whose payload
\* carries no role (or does not decode), a token with a role.
Tokens == {"none", "norole", "valid"}
\* Math.random() * 1000 lies in [0, 1000): both ends and the middle.
Jitter == {0, jitterRange \div 2, jitterRange - 1}
\* reconnectDelay is written by the backoff and read by nothing but the next
\* backoff and the setTimeout it arms, so no other variable depends on the
\* jitter drawn.  Spec draws one jitter; SpecFail, where the delays are
\* studied, draws from Jitter.
NoJitter == {0}
MessageKinds == {"pong", "event", "garbage"}
\* The frames of the registry's study: also a 'ping', an event whose type is
\* the "any message" key, and an object without a type.
RegistryKinds == MessageKinds \cup {"ping", "message", "untyped"}

\* The keys consumers subscribe under: a domain event, the "any message" key
\* the hook uses, and the two heartbeat types.
EventTypes == {"task_created", "message", "ping", "pong"}
\* data.type of an object that has none
NoType == ""
\* Consumer callbacks; those of Throwing throw when they are called.
Callbacks == {"c1", "c2"}
Throwing == {"c2"}

\* this.ws when it refers to a socket whose close event has been delivered.
ClosedRef == -1

\* The callbacks passed to onStatusChange(), and those that throw when called.
StatusCallbacks == {"o1", "o2"}
ThrowingStatus == {"o2"}
\* No status given yet.
Unheard == "none"

\* The hook keeps the task messages of these types,
TaskTypes == {"task_created", "task_updated", "task_deleted"}
\* prev.slice(-49) of them before the new one,
historyKept == 49
\* through its handleMessage, registered under 'message'.
HookHandler == "handleMessage"

VARIABLES
    sockets,                \* the WebSockets created and not yet closed, oldest first
    ws,                     \* this.ws: position in sockets, 0 for null, or ClosedRef
    reconnectAttempts,
    reconnectDelay,
    connectionStatus,
    isManuallyDisconnected,
    heartbeatInterval,      \* TRUE while the setInterval is armed
    missedHeartbeats,
    retryTimers,            \* pending setTimeout callbacks of _attemptReconnect
    reconnectTimers,        \* pending setTimeout callbacks of the hook's reconnect()
    token,                  \* what getToken() finds
    inTask,                 \* socket whose close event follows its error event
    socketsCreated,         \* history: sockets created (counted in SpecFail only)
    awaited,                \* history: position in retryTimers of the retry scheduled
                            \* by the latest unexpected close of an established
                            \* this.ws, 0 if none is pending
    listeners,              \* this.listeners: a Map from the event types that have
                            \* callbacks to their Set, in insertion order
    unsubscribes,           \* the functions on() returned that the consumer still
                            \* holds: a bag of <<eventType, callback>>
    delivered,              \* the callback invocations made for the latest frame
    returned,               \* what the latest send() returned, "none" before any
    transmitted,            \* frames send() handed to a socket
    statusListeners,        \* this.statusListeners: a Set, in insertion order
    statusUnsubscribes,     \* the functions onStatusChange() returned that the
                            \* consumer still holds: a bag of callbacks
    notified,               \* the status callbacks made by the latest step
    heard,                  \* history: the status each callback was last given
    taskEvents,             \* the hook's taskEvents state
    arrivals                \* history: task messages the hook has handled

vars == <<sockets, ws, reconnectAttempts, reconnectDelay, connectionStatus,
          isManuallyDisconnected, heartbeatInterval, missedHeartbeats,
          retryTimers, reconnectTimers, token, inTask, socketsCreated, awaited,
          listeners, unsubscribes, delivered, returned, transmitted,
          statusListeners, statusUnsubscribes, notified, heard, taskEvents,
          arrivals>>

Min(a, b) == IF a <= b THEN a ELSE b

RemoveAt(seq, i) == [k \in 1..(Len(seq) - 1) |-> IF k < i THEN seq[k] ELSE seq[k + 1]]

\* A position in a sequence after the element at position i was removed.
Shift(p, i, gone) == IF p = i THEN gone ELSE IF p > i THEN p - 1 ELSE p

\* ---- sockets ----
\* promise: the promise of the _connect() call that created the socket;
\* retry: that call was made by the retry timer, so its promise carries the
\* .catch of _attemptReconnect; opened: the socket has been OPEN.
NewSocket(retry) ==
    [readyState |-> "CONNECTING", opened |-> FALSE, promise |-> "pending",
     retry |-> retry]

SocketIds == 1..Len(sockets)
LiveSockets == {s \in SocketIds : sockets[s].readyState \in {"CONNECTING", "OPEN"}}

\* connect()'s first test: this.ws && (readyState === CONNECTING || OPEN)
WsActive == ws > 0 /\ sockets[ws].readyState \in {"CONNECTING", "OPEN"}
\* the test of send() and of the heartbeat callback
WsOpen == ws > 0 /\ sockets[ws].readyState = "OPEN"

\* getUserRoleFromToken() returns a role
HasRole == token = "valid"
\* getToken() returns a token
HasToken == token # "none"

\* Room for one more socket: in SpecFail (track) the sockets of the whole
\* behaviour are counted, in Spec those that are not yet closed.
CanCreate(track) ==
    IF track THEN socketsCreated < MaxFailSockets ELSE Len(sockets) < MaxSockets

Count(track) == IF track THEN socketsCreated + 1 ELSE socketsCreated

\* ---- reconnection policy ----
\* The backoff without Math.min.
BackoffUncapped(delay, jitter) == delay * 2 + jitter

\* this.reconnectDelay = Math.min(this.reconnectDelay * 2 + Math.random() * 1000,
\*                                this.maxReconnectDelay)
Backoff(delay, jitter) == Min(delay * 2 + jitter, maxReconnectDelay)

NewTimer == [stale |-> FALSE]

\* _attemptReconnect() without the ceiling on the attempts.
AttemptReconnectNoCeiling(manual, attempts, timers) ==
    IF manual
    THEN [status |-> "error", attempts |-> attempts, timers |-> timers,
          scheduled |-> FALSE]
    ELSE [status |-> "connecting", attempts |-> attempts + 1,
          timers |-> Append(timers, NewTimer), scheduled |-> TRUE]

\* _attemptReconnect() that stops one attempt early.
AttemptReconnectOffByOne(manual, attempts, timers) ==
    IF manual \/ attempts + 1 >= maxReconnectAttempts
    THEN [status |-> "error", attempts |-> attempts, timers |-> timers,
          scheduled |-> FALSE]
    ELSE [status |-> "connecting", attempts |-> attempts + 1,
          timers |-> Append(timers, NewTimer), scheduled |-> TRUE]

\* _attemptReconnect(): the new status, attempt counter and timer queue.
AttemptReconnect(manual, attempts, timers) ==
    IF manual \/ attempts >= maxReconnectAttempts
    THEN [status |-> "error", attempts |-> attempts, timers |-> timers,
          scheduled |-> FALSE]
    ELSE [status |-> "connecting", attempts |-> attempts + 1,
          timers |-> Append(timers, NewTimer), scheduled |-> TRUE]

\* ---- status observers ----

\* _setStatus(status) without the comparison with the status held.
NotifiedAlways(observers, held, status) ==
    [i \in 1..Len(observers) |-> [listener |-> observers[i], status |-> status,
                                   caught |-> observers[i] \in ThrowingStatus]]

\* _setStatus(status): when the status differs from the one held, every
\* listener of the Set is called with it, in insertion order, and what one
\* throws is caught and logged; otherwise nothing is called.
Notified(observers, held, status) ==
    IF held # status
    THEN [i \in 1..Len(observers) |-> [listener |-> observers[i], status |-> status,
                                        caught |-> observers[i] \in ThrowingStatus]]
    ELSE <<>>

\* The _setStatus calls of one handler: a handler changes the status at most
\* once, so the callbacks made are those of the call that changes it.
SetStatus ==
    /\ notified' = Notified(statusListeners, connectionStatus, connectionStatus')
    /\ heard' = [o \in StatusCallbacks |->
                    IF \E i \in 1..Len(notified') : notified'[i].listener = o
                    THEN connectionStatus' ELSE heard[o]]

\* A handler that calls neither _setStatus nor onStatusChange.
NoStatusCall == notified' = <<>> /\ UNCHANGED heard

Init ==
    /\ sockets = <<>>
    /\ ws = 0
    /\ reconnectAttempts = 0
    /\ reconnectDelay = baseReconnectDelay
    /\ connectionStatus = "disconnected"
    /\ isManuallyDisconnected = FALSE
    /\ heartbeatInterval = FALSE
    /\ missedHeartbeats = 0
    /\ retryTimers = <<>>
    /\ reconnectTimers = 0
    /\ token \in Tokens
    /\ inTask = 0
    /\ socketsCreated = 0
    /\ awaited = 0
    /\ listeners = [t \in {} |-> <<>>]
    /\ unsubscribes = EmptyBag
    /\ delivered = <<>>
    /\ returned = "none"
    /\ transmitted = 0
    /\ statusListeners = <<>>
    /\ statusUnsubscribes = EmptyBag
    /\ notified = <<>>
    /\ heard = [o \in StatusCallbacks |-> Unheard]
    /\ taskEvents = <<>>
    /\ arrivals = 0

\* ---- consumer calls ----

\* The credential store changes (login, logout, a token without a role).
SetToken(t) ==
    /\ inTask = 0
    /\ t # token
    /\ token' = t
    /\ UNCHANGED <<sockets, ws, reconnectAttempts, reconnectDelay, connectionStatus,
                   isManuallyDisconnected, heartbeatInterval, missedHeartbeats,
                   retryTimers, reconnectTimers, inTask, socketsCreated, awaited>>
    /\ UNCHANGED <<listeners, unsubscribes, delivered, returned, transmitted>>
    /\ NoStatusCall
    /\ UNCHANGED <<statusListeners, statusUnsubscribes, taskEvents, arrivals>>

\* The body of connect(), shared by the consumer's call and the hook's
\* reconnect timer.
ConnectBody(track) ==
    IF WsActive
    THEN UNCHANGED <<sockets, ws, connectionStatus, isManuallyDisconnected,
                     socketsCreated>>
    ELSE IF ~HasRole
    THEN /\ connectionStatus' = "disconnected"
         /\ UNCHANGED <<sockets, ws, isManuallyDisconnected, socketsCreated>>
    ELSE /\ CanCreate(track)
         /\ isManuallyDisconnected' = FALSE
         /\ connectionStatus' = "connecting"
         /\ sockets' = Append(sockets, NewSocket(FALSE))
         /\ ws' = Len(sockets) + 1
         /\ socketsCreated' = Count(track)

Connect(track) ==
    /\ inTask = 0
    /\ ConnectBody(track)
    /\ UNCHANGED <<reconnectAttempts, reconnectDelay, heartbeatInterval,
                   missedHeartbeats, retryTimers, reconnectTimers, token, inTask,
                   awaited>>
    /\ UNCHANGED <<listeners, unsubscribes, delivered, returned, transmitted>>
    /\ SetStatus
    /\ UNCHANGED <<statusListeners, statusUnsubscribes, taskEvents, arrivals>>

\* disconnect() that also empties this.listeners.
DisconnectBodyDropsListeners ==
    /\ isManuallyDisconnected' = TRUE
    /\ heartbeatInterval' = FALSE
    /\ missedHeartbeats' = 0
    /\ IF ws > 0
       THEN sockets' = [sockets EXCEPT ![ws].readyState =
                           IF @ \in {"CONNECTING", "OPEN"} THEN "CLOSING" ELSE @]
       ELSE UNCHANGED sockets
    /\ ws' = 0
    /\ connectionStatus' = "disconnected"
    /\ retryTimers' = [i \in 1..Len(retryTimers) |-> [retryTimers[i] EXCEPT !.stale = TRUE]]
    /\ listeners' = [t \in {} |-> <<>>]

\* The body of disconnect().  close() on a socket that is CONNECTING or OPEN
\* makes it CLOSING; its events are still to come.
DisconnectBody ==
    /\ isManuallyDisconnected' = TRUE
    /\ heartbeatInterval' = FALSE
    /\ missedHeartbeats' = 0
    /\ IF ws > 0
       THEN sockets' = [sockets EXCEPT ![ws].readyState =
                           IF @ \in {"CONNECTING", "OPEN"} THEN "CLOSING" ELSE @]
       ELSE UNCHANGED sockets
    /\ ws' = 0
    /\ connectionStatus' = "disconnected"
    /\ retryTimers' = [i \in 1..Len(retryTimers) |-> [retryTimers[i] EXCEPT !.stale = TRUE]]
    /\ listeners' = listeners

Disconnect ==
    /\ inTask = 0
    /\ DisconnectBody
    /\ UNCHANGED <<reconnectAttempts, reconnectDelay, reconnectTimers, token, inTask,
                   socketsCreated, awaited>>
    /\ UNCHANGED <<unsubscribes, delivered, returned, transmitted>>
    /\ SetStatus
    /\ UNCHANGED <<statusListeners, statusUnsubscribes, taskEvents, arrivals>>

\* The hook's reconnect(): disconnect() now, connect() one second later.
Reconnect ==
    /\ inTask = 0
    /\ reconnectTimers < MaxReconnectTimers
    /\ DisconnectBody
    /\ reconnectTimers' = reconnectTimers + 1
    /\ UNCHANGED <<reconnectAttempts, reconnectDelay, token, inTask, socketsCreated,
                   awaited>>
    /\ UNCHANGED <<unsubscribes, delivered, returned, transmitted>>
    /\ SetStatus
    /\ UNCHANGED <<statusListeners, statusUnsubscribes, taskEvents, arrivals>>

ReconnectTimerFire ==
    /\ inTask = 0
    /\ reconnectTimers > 0
    /\ reconnectTimers' = reconnectTimers - 1
    /\ ConnectBody(FALSE)
    /\ UNCHANGED <<reconnectAttempts, reconnectDelay, heartbeatInterval,
                   missedHeartbeats, retryTimers, token, inTask, awaited>>
    /\ UNCHANGED <<listeners, unsubscribes, delivered, returned, transmitted>>
    /\ SetStatus
    /\ UNCHANGED <<statusListeners, statusUnsubscribes, taskEvents, arrivals>>

\* ---- timers ----

\* The setTimeout callback of _attemptReconnect: unless the manual flag is
\* set, _connect() with the .catch that applies the backoff.
RetryTimerFire(i, track, jitters) ==
    /\ inTask = 0
    /\ i \in 1..Len(retryTimers)
    /\ retryTimers' = RemoveAt(retryTimers, i)
    /\ awaited' = Shift(awaited, i, 0)
    /\ IF isManuallyDisconnected
       THEN UNCHANGED <<sockets, ws, connectionStatus, reconnectDelay, socketsCreated>>
       ELSE IF ~HasToken
       THEN \* _connect() rejects; the .catch runs as a microtask of this task
            /\ connectionStatus' = "error"
            /\ \E j \in jitters : reconnectDelay' = Backoff(reconnectDelay, j)
            /\ UNCHANGED <<sockets, ws, socketsCreated>>
       ELSE /\ CanCreate(track)
            /\ connectionStatus' = "connecting"
            /\ sockets' = Append(sockets, NewSocket(TRUE))
            /\ ws' = Len(sockets) + 1
            /\ socketsCreated' = Count(track)
            /\ UNCHANGED reconnectDelay
    /\ UNCHANGED <<reconnectAttempts, isManuallyDisconnected, heartbeatInterval,
                   missedHeartbeats, reconnectTimers, token, inTask>>
    /\ UNCHANGED <<listeners, unsubscribes, delivered, returned, transmitted>>
    /\ SetStatus
    /\ UNCHANGED <<statusListeners, statusUnsubscribes, taskEvents, arrivals>>

\* The setInterval callback of _startHeartbeat.
HeartbeatTick ==
    /\ inTask = 0
    /\ heartbeatInterval
    /\ missedHeartbeats < MissedCap
    /\ Len(retryTimers) < MaxTimers
    /\ IF WsOpen
       THEN /\ missedHeartbeats' = missedHeartbeats + 1
            /\ IF missedHeartbeats + 1 >= maxMissedHeartbeats
               THEN LET r == AttemptReconnect(isManuallyDisconnected, reconnectAttempts,
                                              retryTimers)
                    IN  /\ connectionStatus' = r.status
                        /\ reconnectAttempts' = r.attempts
                        /\ retryTimers' = r.timers
               ELSE UNCHANGED <<connectionStatus, reconnectAttempts, retryTimers>>
       ELSE UNCHANGED <<missedHeartbeats, connectionStatus, reconnectAttempts,
                        retryTimers>>
    /\ UNCHANGED <<sockets, ws, reconnectDelay, isManuallyDisconnected, heartbeatInterval,
                   reconnectTimers, token, inTask, socketsCreated,
                   awaited>>
    /\ UNCHANGED <<listeners, unsubscribes, delivered, returned, transmitted>>
    /\ SetStatus
    /\ UNCHANGED <<statusListeners, statusUnsubscribes, taskEvents, arrivals>>

\* ---- socket events ----

\* ws.onopen that leaves the attempt counter and the delay as they are.
SocketOpenKeepsBudget(s) ==
    /\ inTask = 0
    /\ s \in SocketIds
    /\ sockets[s].readyState = "CONNECTING"
    /\ sockets' = [sockets EXCEPT ![s].readyState = "OPEN",
                                  ![s].opened = TRUE,
                                  ![s].promise = "resolved",
                                  ![s].retry = FALSE]
    /\ connectionStatus' = "connected"
    /\ heartbeatInterval' = TRUE
    /\ missedHeartbeats' = 0
    /\ UNCHANGED <<ws, reconnectAttempts, reconnectDelay, isManuallyDisconnected,
                   retryTimers, reconnectTimers, token, inTask, socketsCreated,
                   awaited>>
    /\ UNCHANGED <<listeners, unsubscribes, delivered, returned, transmitted>>
    /\ SetStatus
    /\ UNCHANGED <<statusListeners, statusUnsubscribes, taskEvents, arrivals>>

\* ws.onopen: the handshake of socket s succeeded.  resolve() settles the
\* promise, so the .catch of a retry can no longer run: retry is forgotten.
SocketOpen(s) ==
    /\ inTask = 0
    /\ s \in SocketIds
    /\ sockets[s].readyState = "CONNECTING"
    /\ sockets' = [sockets EXCEPT ![s].readyState = "OPEN",
                                  ![s].opened = TRUE,
                                  ![s].promise = "resolved",
                                  ![s].retry = FALSE]
    /\ connectionStatus' = "connected"
    /\ reconnectAttempts' = 0
    /\ reconnectDelay' = baseReconnectDelay
    /\ heartbeatInterval' = TRUE
    /\ missedHeartbeats' = 0
    /\ UNCHANGED <<ws, isManuallyDisconnected, retryTimers, reconnectTimers, token,
                   inTask, socketsCreated, awaited>>
    /\ UNCHANGED <<listeners, unsubscribes, delivered, returned, transmitted>>
    /\ SetStatus
    /\ UNCHANGED <<statusListeners, statusUnsubscribes, taskEvents, arrivals>>

\* ws.onerror: the connection of socket s failed (a handshake failure, a
\* close() before the handshake ended, or an established connection lost).
\* The socket is CLOSED when the event fires and its close event follows in
\* the same task.  reject() settles the promise of the _connect() call; for a
\* retry the .catch of _attemptReconnect runs before the close event.
SocketError(s, jitters) ==
    /\ inTask = 0
    /\ s \in SocketIds
    /\ sockets[s].readyState \in {"CONNECTING", "OPEN", "CLOSING"}
    /\ Len(retryTimers) < MaxTimers
    /\ sockets' = [sockets EXCEPT ![s].readyState = "CLOSED",
                                  ![s].promise = IF @ = "pending" THEN "rejected" ELSE @]
    /\ connectionStatus' = "error"
    /\ heartbeatInterval' = FALSE
    /\ missedHeartbeats' = 0
    /\ IF sockets[s].promise = "pending" /\ sockets[s].retry
       THEN \E j \in jitters : reconnectDelay' = Backoff(reconnectDelay, j)
       ELSE UNCHANGED reconnectDelay
    /\ inTask' = s
    /\ UNCHANGED <<ws, reconnectAttempts, isManuallyDisconnected, retryTimers,
                   reconnectTimers, token, socketsCreated, awaited>>
    /\ UNCHANGED <<listeners, unsubscribes, delivered, returned, transmitted>>
    /\ SetStatus
    /\ UNCHANGED <<statusListeners, statusUnsubscribes, taskEvents, arrivals>>

\* ws.onclose with its test inverted: reconnect after a clean close only.
CloseReconnectsWhenClean(manual, wasClean) == ~manual /\ wasClean

\* ws.onclose's test: if (this.isManuallyDisconnected || event.wasClean) the
\* status becomes 'disconnected', else _attemptReconnect() is called.
CloseReconnects(manual, wasClean) == ~(manual \/ wasClean)

\* ws.onclose: after the error event of the same task (never clean), or on
\* its own for a connection that was established: the closing handshake
\* completed (clean) or the connection was lost without one.  The socket
\* leaves the model: no event of it follows.
SocketClose(s, wasClean) ==
    /\ s \in SocketIds
    /\ \/ inTask = s /\ ~wasClean
       \/ /\ inTask = 0
          /\ sockets[s].opened
          /\ sockets[s].readyState \in {"OPEN", "CLOSING"}
          /\ Len(retryTimers) < MaxTimers
    /\ sockets' = RemoveAt(sockets, s)
    /\ ws' = Shift(ws, s, ClosedRef)
    /\ heartbeatInterval' = FALSE
    /\ missedHeartbeats' = 0
    /\ inTask' = 0
    /\ IF ~CloseReconnects(isManuallyDisconnected, wasClean)
       THEN /\ connectionStatus' = "disconnected"
            /\ UNCHANGED <<reconnectAttempts, retryTimers, awaited>>
       ELSE LET r == AttemptReconnect(isManuallyDisconnected, reconnectAttempts,
                                      retryTimers)
            IN  /\ connectionStatus' = r.status
                /\ reconnectAttempts' = r.attempts
                /\ retryTimers' = r.timers
                /\ awaited' = IF r.scheduled /\ sockets[s].opened /\ ws = s
                              THEN Len(r.timers) ELSE awaited
    /\ UNCHANGED <<reconnectDelay, isManuallyDisconnected, reconnectTimers, token,
                   socketsCreated>>
    /\ UNCHANGED <<listeners, unsubscribes, delivered, returned, transmitted>>
    /\ SetStatus
    /\ UNCHANGED <<statusListeners, statusUnsubscribes, taskEvents, arrivals>>

\* ---- inbound frames ----

Range(seq) == {seq[i] : i \in 1..Len(seq)}

\* JSON.parse(event.data) throws on a frame that is not JSON.
Parses(kind) == kind # "garbage"

\* The object JSON.parse returns for a frame of each kind.
Parse(kind) ==
    CASE kind = "event"   -> [type |-> "task_created", value |-> "v"]
      [] kind = "untyped" -> [type |-> NoType, value |-> "v"]
      [] OTHER            -> [type |-> kind, value |-> "v"]

\* callbacks.forEach without the try/catch: the first callback that throws
\* ends the loop.
InvokeNoCatch(callbacks, data) ==
    LET throwers == {i \in 1..Len(callbacks) : callbacks[i] \in Throwing}
        last == IF throwers = {} THEN Len(callbacks)
                ELSE CHOOSE i \in throwers : \A j \in throwers : i <= j
    IN  [i \in 1..last |-> [callback |-> callbacks[i], payload |-> data,
                             caught |-> FALSE]]

\* callbacks.forEach(callback => { try { callback(data) } catch ... }): every
\* callback of the Set is called with data, in insertion order; what one
\* throws is caught and logged.
Invoke(callbacks, data) ==
    [i \in 1..Len(callbacks) |-> [callback |-> callbacks[i], payload |-> data,
                                   caught |-> callbacks[i] \in Throwing]]

\* _handleMessage(data) after the reset of missedHeartbeats: the invocations
\* it makes.  A 'pong' returns at once; the callbacks under data.type, when
\* the type is truthy and the key exists; then those under 'message'.
HandleMessage(lst, data) ==
    IF data.type = "pong"
    THEN <<>>
    ELSE (IF data.type # NoType /\ data.type \in DOMAIN lst
          THEN Invoke(lst[data.type], data) ELSE <<>>)
         \o (IF "message" \in DOMAIN lst THEN Invoke(lst["message"], data) ELSE <<>>)

\* The last n elements of a sequence: seq.slice(-n).
Slice(seq, n) ==
    IF Len(seq) <= n THEN seq ELSE SubSeq(seq, Len(seq) - n + 1, Len(seq))

\* handleMessage of the hook keeping prev.slice(-50).
HandleTaskMessageKeepsFifty(events, data, count) ==
    IF data.type # NoType /\ data.type \in TaskTypes
    THEN Append(Slice(events, historyKept + 1),
                [type |-> data.type, value |-> data.value, arrival |-> count + 1])
    ELSE events

\* handleMessage(data) of the hook on taskEvents: a message of a task type is
\* appended to prev.slice(-49).  The entry is the message and a timestamp;
\* the timestamp is left out and arrival, history, numbers the task messages
\* handled.
HandleTaskMessage(events, data, count) ==
    IF data.type # NoType /\ data.type \in TaskTypes
    THEN Append(Slice(events, historyKept),
                [type |-> data.type, value |-> data.value, arrival |-> count + 1])
    ELSE events

\* The calls of one dispatch that go to the hook's handleMessage, applied in
\* order to its taskEvents.
RECURSIVE HookHandles(_, _, _)
HookHandles(events, count, calls) ==
    IF calls = <<>>
    THEN [taskEvents |-> events, arrivals |-> count]
    ELSE LET data == Head(calls).payload
             mine == Head(calls).callback = HookHandler
             task == mine /\ data.type \in TaskTypes
         IN  HookHandles(IF mine THEN HandleTaskMessage(events, data, count) ELSE events,
                         IF task THEN count + 1 ELSE count,
                         Tail(calls))

\* ws.onmessage: JSON.parse, then _handleMessage, which resets the missed
\* heartbeats and calls the callbacks; a frame that does not parse is dropped.
SocketMessage(s, kind) ==
    /\ inTask = 0
    /\ s \in SocketIds
    /\ sockets[s].opened
    /\ sockets[s].readyState \in {"OPEN", "CLOSING"}
    /\ missedHeartbeats' = IF Parses(kind) THEN 0 ELSE missedHeartbeats
    /\ delivered' = IF Parses(kind) THEN HandleMessage(listeners, Parse(kind)) ELSE <<>>
    /\ UNCHANGED <<sockets, ws, reconnectAttempts, reconnectDelay, connectionStatus,
                   isManuallyDisconnected, heartbeatInterval, retryTimers,
                   reconnectTimers, token, inTask, socketsCreated,
                   awaited>>
    /\ LET h == HookHandles(taskEvents, arrivals, delivered')
       IN  taskEvents' = h.taskEvents /\ arrivals' = h.arrivals
    /\ NoStatusCall
    /\ UNCHANGED <<listeners, unsubscribes, returned, transmitted, statusListeners,
                   statusUnsubscribes>>

\* ---- the listener registry ----

\* The callbacks registered under an event type: those of its Set, none
\* when the Map has no such key.
Registered(lst, eventType) ==
    IF eventType \in DOMAIN lst THEN Range(lst[eventType]) ELSE {}

\* The Map with the Set of eventType replaced; the key goes with an empty Set.
WithSet(lst, eventType, callbacks) ==
    [t \in (IF callbacks = <<>> THEN DOMAIN lst \ {eventType}
            ELSE DOMAIN lst \cup {eventType})
       |-> IF t = eventType THEN callbacks ELSE lst[t]]

\* The unsubscribe functions the consumer holds.
Outstanding == BagCardinality(unsubscribes)

Held(eventType, callback) == CopiesIn(<<eventType, callback>>, unsubscribes)

\* on(eventType, callback): Set.add, which adds nothing when the callback is
\* in the Set already; the function returned calls off(eventType, callback).
On(eventType, callback) ==
    /\ inTask = 0
    /\ Outstanding < MaxSubs
    /\ listeners' = IF callback \in Registered(listeners, eventType)
                    THEN listeners
                    ELSE WithSet(listeners, eventType,
                                 IF eventType \in DOMAIN listeners
                                 THEN Append(listeners[eventType], callback)
                                 ELSE <<callback>>)
    /\ unsubscribes' = unsubscribes (+) SetToBag({<<eventType, callback>>})
    /\ UNCHANGED <<sockets, ws, reconnectAttempts, reconnectDelay, connectionStatus,
                   isManuallyDisconnected, heartbeatInterval, missedHeartbeats,
                   retryTimers, reconnectTimers, token, inTask, socketsCreated,
                   awaited, delivered, returned, transmitted>>
    /\ NoStatusCall
    /\ UNCHANGED <<statusListeners, statusUnsubscribes, taskEvents, arrivals>>

\* off(eventType, callback): Set.delete, the key deleted with its last callback.
Off(lst, eventType, callback) ==
    IF eventType \in DOMAIN lst
    THEN WithSet(lst, eventType, SelectSeq(lst[eventType], LAMBDA c : c # callback))
    ELSE lst

\* The consumer calls a function that on(eventType, callback) returned.
Unsubscribe(eventType, callback) ==
    /\ inTask = 0
    /\ Held(eventType, callback) > 0
    /\ listeners' = Off(listeners, eventType, callback)
    /\ unsubscribes' = unsubscribes (-) SetToBag({<<eventType, callback>>})
    /\ UNCHANGED <<sockets, ws, reconnectAttempts, reconnectDelay, connectionStatus,
                   isManuallyDisconnected, heartbeatInterval, missedHeartbeats,
                   retryTimers, reconnectTimers, token, inTask, socketsCreated,
                   awaited, delivered, returned, transmitted>>
    /\ NoStatusCall
    /\ UNCHANGED <<statusListeners, statusUnsubscribes, taskEvents, arrivals>>

\* ---- status subscriptions ----

\* onStatusChange(callback) without the immediate call.
ImmediateCallOmitted(callback, status) == <<>>

\* callback(this.connectionStatus) in onStatusChange: outside any try, so
\* what the callback throws reaches the caller.
ImmediateCall(callback, status) ==
    <<[listener |-> callback, status |-> status, caught |-> FALSE]>>

IsStatusListener(callback) ==
    \E i \in 1..Len(statusListeners) : statusListeners[i] = callback

\* onStatusChange(callback): Set.add, the immediate call with the status
\* held, then the unsubscribe function is returned, unless the call threw.
OnStatusChange(callback) ==
    /\ inTask = 0
    /\ BagCardinality(statusUnsubscribes) < MaxStatusSubs
    /\ statusListeners' = IF IsStatusListener(callback) THEN statusListeners
                          ELSE Append(statusListeners, callback)
    /\ notified' = ImmediateCall(callback, connectionStatus)
    /\ heard' = [o \in StatusCallbacks |->
                    IF \E i \in 1..Len(notified') : notified'[i].listener = o
                    THEN connectionStatus ELSE heard[o]]
    /\ statusUnsubscribes' = IF callback \in ThrowingStatus THEN statusUnsubscribes
                             ELSE statusUnsubscribes (+) SetToBag({callback})
    /\ UNCHANGED <<sockets, ws, reconnectAttempts, reconnectDelay, connectionStatus,
                   isManuallyDisconnected, heartbeatInterval, missedHeartbeats,
                   retryTimers, reconnectTimers, token, inTask, socketsCreated,
                   awaited, listeners, unsubscribes, delivered, returned,
                   transmitted, taskEvents, arrivals>>

\* The consumer calls a function that onStatusChange(callback) returned:
\* this.statusListeners.delete(callback).
StatusUnsubscribe(callback) ==
    /\ inTask = 0
    /\ CopiesIn(callback, statusUnsubscribes) > 0
    /\ statusListeners' = SelectSeq(statusListeners, LAMBDA o : o # callback)
    /\ statusUnsubscribes' = statusUnsubscribes (-) SetToBag({callback})
    /\ NoStatusCall
    /\ UNCHANGED <<sockets, ws, reconnectAttempts, reconnectDelay, connectionStatus,
                   isManuallyDisconnected, heartbeatInterval, missedHeartbeats,
                   retryTimers, reconnectTimers, token, inTask, socketsCreated,
                   awaited, listeners, unsubscribes, delivered, returned,
                   transmitted, taskEvents, arrivals>>

\* ---- outbound frames ----

\* send() that also hands the frame to a socket that is still CONNECTING.
SendWhileConnecting ==
    /\ inTask = 0
    /\ IF WsActive
       THEN /\ transmitted < MaxSent
            /\ transmitted' = transmitted + 1
            /\ returned' = "true"
       ELSE /\ returned' = "false"
            /\ UNCHANGED transmitted
    /\ UNCHANGED <<sockets, ws, reconnectAttempts, reconnectDelay, connectionStatus,
                   isManuallyDisconnected, heartbeatInterval, missedHeartbeats,
                   retryTimers, reconnectTimers, token, inTask, socketsCreated,
                   awaited, listeners, unsubscribes, delivered>>
    /\ NoStatusCall
    /\ UNCHANGED <<statusListeners, statusUnsubscribes, taskEvents, arrivals>>

\* send(data): this.ws.send(JSON.stringify(data)) and true when this.ws is
\* OPEN, else a warning and false.
Send ==
    /\ inTask = 0
    /\ IF WsOpen
       THEN /\ transmitted < MaxSent
            /\ transmitted' = transmitted + 1
            /\ returned' = "true"
       ELSE /\ returned' = "false"
            /\ UNCHANGED transmitted
    /\ UNCHANGED <<sockets, ws, reconnectAttempts, reconnectDelay, connectionStatus,
                   isManuallyDisconnected, heartbeatInterval, missedHeartbeats,
                   retryTimers, reconnectTimers, token, inTask, socketsCreated,
                   awaited, listeners, unsubscribes, delivered>>
    /\ NoStatusCall
    /\ UNCHANGED <<statusListeners, statusUnsubscribes, taskEvents, arrivals>>

\* ---- specifications ----

\* Every step but a change of the credential store.
NextLoggedIn ==
    \/ Connect(FALSE)
    \/ Disconnect
    \/ Reconnect
    \/ ReconnectTimerFire
    \/ \E i \in 1..MaxTimers : RetryTimerFire(i, FALSE, NoJitter)
    \/ HeartbeatTick
    \/ \E s \in 1..MaxSockets : SocketOpen(s)
    \/ \E s \in 1..MaxSockets : SocketError(s, NoJitter)
    \/ \E s \in 1..MaxSockets, wasClean \in BOOLEAN : SocketClose(s, wasClean)
    \/ \E s \in 1..MaxSockets, kind \in MessageKinds : SocketMessage(s, kind)

Next ==
    \/ \E t \in Tokens : SetToken(t)
    \/ NextLoggedIn

Spec == Init /\ [][Next]_vars

\* Every handshake fails and the consumer stays away: the module's
\* initializeWebSocket() calls connect() once, a token being present; every
\* socket fails while CONNECTING; the retry timers expire.  All three happen
\* without the consumer, hence the fairness.
InitFail == Init /\ token = "valid"

FirstConnect == socketsCreated = 0 /\ Connect(TRUE)

HandshakeFails == \E s \in SocketIds :
    sockets[s].readyState = "CONNECTING" /\ SocketError(s, Jitter)

CloseAfterError == \E s \in SocketIds : inTask = s /\ SocketClose(s, FALSE)

RetryExpires == \E i \in 1..MaxTimers : RetryTimerFire(i, TRUE, Jitter)

NextFail == FirstConnect \/ HandshakeFails \/ CloseAfterError \/ RetryExpires

SpecFail == InitFail /\ [][NextFail]_vars /\ WF_vars(NextFail)

\* The retry budget is spent and nothing is in flight: no socket, no retry
\* timer, no event pending.
Settled ==
    /\ connectionStatus = "error"
    /\ sockets = <<>>
    /\ retryTimers = <<>>
    /\ inTask = 0

\* Recovery by hand: as in SpecFail every handshake fails until the budget is
\* spent; the consumer then calls the hook's reconnect(), whose timer calls
\* connect(); the handshake of that attempt succeeds or fails.
ReconnectFromError == Settled /\ Reconnect

HandshakeSucceeds == \E s \in SocketIds :
    reconnectAttempts >= maxReconnectAttempts /\ SocketOpen(s)

NextRecover == NextFail \/ ReconnectFromError \/ ReconnectTimerFire \/ HandshakeSucceeds

SpecRecover == InitFail /\ [][NextRecover]_vars

\* The backoff at work: one connect(), handshakes that fail or succeed,
\* established connections that are lost, retry timers that expire, with
\* the jitter drawn from Jitter.
ConnectionOpens == \E s \in SocketIds : SocketOpen(s)

ConnectionLost == \E s \in SocketIds :
    inTask = 0 /\ sockets[s].readyState = "OPEN" /\ SocketClose(s, FALSE)

NextBackoff ==
    \/ FirstConnect
    \/ HandshakeFails
    \/ CloseAfterError
    \/ RetryExpires
    \/ ConnectionOpens
    \/ ConnectionLost

SpecBackoff == InitFail /\ [][NextBackoff]_vars

\* The registry at work: consumers subscribe and unsubscribe at will while
\* one connection is opened and frames of every kind arrive on it.
NextRegistry ==
    \/ \E t \in EventTypes, c \in Callbacks : On(t, c)
    \/ \E t \in EventTypes, c \in Callbacks : Unsubscribe(t, c)
    \/ Connect(FALSE)
    \/ \E s \in 1..MaxSockets : SocketOpen(s)
    \/ \E s \in 1..MaxSockets, kind \in RegistryKinds : SocketMessage(s, kind)

SpecRegistry == InitFail /\ [][NextRegistry]_vars

\* The whole channel of a user who stays logged in, with the hook's one
\* registration: its effect subscribes handleMessage under 'message', its
\* cleanup calls the function returned.
HookSubscribes == Outstanding = 0 /\ On("message", "c1")

HookCleanup == Unsubscribe("message", "c1")

NextChannel == NextLoggedIn \/ HookSubscribes \/ HookCleanup

SpecChannel == InitFail /\ [][NextChannel]_vars

\* The whole channel of a user who stays logged in and sends.
NextSend == NextLoggedIn \/ Send

SpecSend == InitFail /\ [][NextSend]_vars

\* The status observers: consumers subscribe and unsubscribe while the
\* connection is made, lost, retried and closed by the consumer.
NextStatus ==
    \/ NextBackoff
    \/ Disconnect
    \/ \E o \in StatusCallbacks : OnStatusChange(o)
    \/ \E o \in StatusCallbacks : StatusUnsubscribe(o)

SpecStatus == InitFail /\ [][NextStatus]_vars

\* The hook's history: the hook registers handleMessage under 'message' and
\* frames arrive on the open socket.
HistoryKinds == {"event", "task_updated", "task_deleted", "message", "pong", "garbage"}

HookMounts == Outstanding = 0 /\ On("message", HookHandler)

FrameArrives == \E s \in SocketIds, kind \in HistoryKinds :
    /\ arrivals < MaxArrivals
    /\ kind \in {"task_updated", "task_deleted"} => arrivals < MaxVaried
    /\ SocketMessage(s, kind)

NextHistory == HookMounts \/ FirstConnect \/ ConnectionOpens \/ FrameArrives

SpecHistory == InitFail /\ [][NextHistory]_vars

\* ---- claims ----

\* A step that creates a socket (a closed socket leaves, none else does).
SocketCreated == Len(sockets') > Len(sockets)

\* C1: in every reachable state at most one socket created by the service
\* is CONNECTING or OPEN.
C1_AtMostOneSocket == Cardinality(LiveSockets) <= 1

\* C2: connect() called while the status is 'connecting' or 'connected'
\* creates no socket and leaves status, reconnectAttempts, reconnectDelay
\* and the manual-disconnect flag unchanged.
C2_ConnectIsNoOp ==
    [][(Connect(FALSE) /\ connectionStatus \in {"connecting", "connected"})
         => /\ ~SocketCreated
            /\ UNCHANGED <<connectionStatus, reconnectAttempts, reconnectDelay,
                           isManuallyDisconnected>>]_vars

\* C3: from the state disconnect() leaves (manual flag set, this.ws null,
\* status 'disconnected') every step that is not a connect() call keeps the
\* status 'disconnected' and creates no socket.
C3_StaysDisconnected ==
    [][(/\ isManuallyDisconnected /\ ws = 0 /\ connectionStatus = "disconnected"
        /\ ~Connect(FALSE) /\ ~ReconnectTimerFire)
         => (connectionStatus' = "disconnected" /\ ~SocketCreated)]_vars

\* C4: a retry timer that was pending when disconnect() was called never
\* creates a socket when it expires.
C4_TimerInvalidated ==
    [][\A i \in 1..Len(retryTimers) :
          (retryTimers[i].stale /\ RetryTimerFire(i, FALSE, NoJitter))
             => ~SocketCreated]_vars

\* C5: when every handshake fails and the consumer stays away, the status
\* eventually is 'error' and from then on stays so, with no socket in
\* flight, no retry timer pending and no socket created any more.
C5_EndsInError == <>[](Settled /\ socketsCreated > 0)

C5_Witness == Settled /\ reconnectAttempts = maxReconnectAttempts /\ ws = ClosedRef

\* C6: the status is 'error' only when the retry budget is exhausted.
C6_ErrorOnlyWhenExhausted ==
    connectionStatus = "error" => reconnectAttempts >= maxReconnectAttempts

C8_TornDownBeforeReplacement ==
    [][/\ (HeartbeatTick /\ missedHeartbeats' >= maxMissedHeartbeats
             /\ missedHeartbeats' > missedHeartbeats
             /\ reconnectAttempts < maxReconnectAttempts)
          => Len(retryTimers') = Len(retryTimers) + 1
       /\ SocketCreated
          => ~(WsOpen /\ missedHeartbeats >= maxMissedHeartbeats)]_vars

\* C9: an unclean close of the established this.ws, the manual flag unset and
\* attempts remaining, sets the status to 'connecting' (never 'disconnected')
\* and creates no socket; while the retry it scheduled is pending, a socket
\* is created only by the expiry of that retry.
C9_WaitsForTheDelay ==
    [][/\ \A s \in SocketIds :
             (/\ SocketClose(s, FALSE) /\ sockets[s].opened /\ ws = s
              /\ ~isManuallyDisconnected
              /\ reconnectAttempts < maxReconnectAttempts)
                => (connectionStatus' = "connecting" /\ ~SocketCreated /\ awaited' # 0)
       /\ (awaited # 0 /\ SocketCreated)
             => RetryTimerFire(awaited, FALSE, NoJitter)]_vars

FindsNoCredential ==
    /\ ~HasToken
    /\ \/ ~WsActive /\ (Connect(FALSE) \/ ReconnectTimerFire)
       \/ /\ ~isManuallyDisconnected
          /\ \E i \in 1..Len(retryTimers) : RetryTimerFire(i, FALSE, NoJitter)

\* C11: whenever a connection attempt (connect() or a scheduled retry) finds
\* no credential, no socket is created and the status is 'disconnected'
\* afterwards, never 'error'.
C11_NoCredentialIsNoError ==
    [][FindsNoCredential
         => (~SocketCreated /\ connectionStatus' = "disconnected")]_vars

\* C12: the promise connect() returned is resolved whatever the handshake
\* does: no socket that connect() created carries a pending or a rejected
\* promise.
C12_ConnectPromiseResolved ==
    \A s \in SocketIds : ~sockets[s].retry => sockets[s].promise = "resolved"

\* C13: from the exhausted 'error' state, reconnect() with a credential
\* available performs disconnect() and creates no socket; when its delay
\* expires connect() creates exactly one socket, none existing before; when
\* that handshake succeeds the status is 'connected', reconnectAttempts is 0
\* and reconnectDelay is the base delay.
C13_ReconnectRecovers ==
    [][/\ (Settled /\ reconnectAttempts >= maxReconnectAttempts /\ HasRole /\ Reconnect)
          => /\ connectionStatus' = "disconnected"
             /\ isManuallyDisconnected'
             /\ ws' = 0
             /\ sockets' = <<>>
             /\ reconnectTimers' = 1
       /\ reconnectTimers > 0 => sockets = <<>>
       /\ ReconnectTimerFire
          => /\ Len(sockets') = 1
             /\ sockets'[1].readyState = "CONNECTING"
             /\ ws' = 1
             /\ connectionStatus' = "connecting"
             /\ ~isManuallyDisconnected'
             /\ reconnectTimers' = 0
       /\ (\E s \in SocketIds : SocketOpen(s))
          => /\ Len(sockets') = 1
             /\ connectionStatus' = "connected"
             /\ reconnectAttempts' = 0
             /\ reconnectDelay' = baseReconnectDelay]_vars

\* Recovered by reconnect() after the initial attempt and every retry failed.
C13_Witness ==
    /\ connectionStatus = "connected"
    /\ reconnectAttempts = 0
    /\ reconnectDelay = baseReconnectDelay
    /\ socketsCreated = maxReconnectAttempts + 1
    /\ WsOpen

\* How often callback c was invoked with data for the latest frame.
Times(log, c, data) ==
    Cardinality({i \in 1..Len(log) : log[i].callback = c /\ log[i].payload = data})

\* The types the envelope reserves for the heartbeat.
ControlTypes == {"ping", "pong"}

\* C14: for a frame whose type T is not a control type, T = 'message'
\* included, every callback registered under T is invoked with the whole
\* message once for that registration (and once more only if it is also
\* registered under the other key, 'message').
C14_EachCallbackOnce ==
    [][\A s \in SocketIds, kind \in {"event", "message"} :
          SocketMessage(s, kind)
             => LET data == Parse(kind)
                IN  \A c \in Registered(listeners, data.type) :
                       Times(delivered', c, data) =
                          IF data.type # "message" /\ c \in Registered(listeners, "message")
                          THEN 2 ELSE 1]_vars

\* C15: calling a function on() returned removes one registration only: every
\* registration whose function the consumer still holds is still in the
\* registry, and the callback is gone from the type when no registration of
\* it under that type is left.
C15_RemovesExactlyOne ==
    [][\A t \in EventTypes, c \in Callbacks :
          Unsubscribe(t, c)
             => /\ \A t2 \in EventTypes, c2 \in Callbacks :
                      CopiesIn(<<t2, c2>>, unsubscribes') > 0 => c2 \in Registered(listeners', t2)
                /\ CopiesIn(<<t, c>>, unsubscribes') = 0 => c \notin Registered(listeners', t)]_vars

\* C16: after callback c was subscribed twice under type T and one of the
\* two functions returned was called, a dispatch of T still invokes c.
C16_RegistrationsIndependent ==
    [][\A t \in EventTypes \ {"pong"}, c \in Callbacks :
          (Held(t, c) = 2 /\ Unsubscribe(t, c))
             => LET data == [type |-> t, value |-> "v"]
                IN  Times(HandleMessage(listeners', data), c, data) >= 1]_vars

\* C17: when a callback throws during a dispatch, every callback registered
\* under the frame's type and every 'message' callback is still invoked
\* with the frame, what was thrown is caught, and the status, the counters,
\* the sockets, the timers and the registry are as any frame leaves them.
C17_ThrowIsIsolated ==
    [][\A s \in SocketIds, kind \in RegistryKinds :
          (/\ Parses(kind)
           /\ SocketMessage(s, kind)
           /\ \E i \in 1..Len(delivered') : delivered'[i].callback \in Throwing)
             => LET data == Parse(kind)
                    typed == IF data.type \in EventTypes
                             THEN Registered(listeners, data.type) ELSE {}
                IN  /\ \A c \in typed \cup Registered(listeners, "message") :
                          Times(delivered', c, data) >= 1
                    /\ \A i \in 1..Len(delivered') :
                          delivered'[i].callback \in Throwing => delivered'[i].caught
                    /\ missedHeartbeats' = 0
                    /\ UNCHANGED <<connectionStatus, reconnectAttempts, reconnectDelay,
                                   isManuallyDisconnected, heartbeatInterval, sockets,
                                   ws, retryTimers, listeners, unsubscribes>>]_vars

\* A dispatch in which a callback threw and a callback after it was invoked.
C17_Witness ==
    /\ connectionStatus = "connected"
    /\ \E i, j \in 1..Len(delivered) :
          /\ i < j
          /\ delivered[i].callback \in Throwing
          /\ delivered[i].caught
          /\ delivered[j].callback \notin Throwing

\* C18: a frame whose type is 'ping' or 'pong' invokes no callback, neither
\* one registered under that type nor one registered under 'message'.
C18_ControlNeverForwarded ==
    [][\A s \in SocketIds, kind \in ControlTypes :
          SocketMessage(s, kind) => delivered' = <<>>]_vars

\* C19: the registry changes by on() and by the functions it returned only,
\* whatever the connection does, and they take effect in every status: the
\* hook's callback is registered exactly while the hook holds its
\* unsubscribe function, and an event frame then reaches it.
C19_RegistryIndependent ==
    [][/\ listeners' # listeners => (HookSubscribes \/ HookCleanup)
       /\ ("c1" \in Registered(listeners', "message")) <=> (CopiesIn(<<"message", "c1">>, unsubscribes') = 1)
       /\ ("c1" \in Registered(listeners, "message") /\ sockets' = sockets)
             => \A s \in SocketIds :
                   SocketMessage(s, "event")
                      => Times(delivered', "c1", Parse("event")) = 1]_vars

\* The hook's callback, subscribed before, got an event of a connection that
\* was opened after a disconnect() had left a retry timer behind.
C19_Witness ==
    /\ "c1" \in Registered(listeners, "message")
    /\ connectionStatus = "connected"
    /\ WsOpen
    /\ delivered # <<>>
    /\ \E i \in 1..Len(retryTimers) : retryTimers[i].stale

\* C20: send() returns true exactly when this.ws is OPEN, and then one frame
\* is transmitted; otherwise it returns false and changes nothing else; no
\* other step transmits a frame of send(), so nothing was queued.
C20_SendIsSynchronous ==
    [][/\ ((returned' # returned \/ transmitted' # transmitted) /\ Send)
          => /\ (returned' = "true") <=> WsOpen
             /\ (returned' = "false") <=> ~WsOpen
             /\ transmitted' = IF WsOpen THEN transmitted + 1 ELSE transmitted
             /\ UNCHANGED <<sockets, ws, reconnectAttempts, reconnectDelay,
                            connectionStatus, isManuallyDisconnected,
                            heartbeatInterval, missedHeartbeats, retryTimers,
                            reconnectTimers, token, listeners, delivered>>
       /\ transmitted' # transmitted => (WsOpen /\ Send)]_vars

\* send() failed, a connection was opened later, and nothing was transmitted.
C20_Witness ==
    /\ returned = "false"
    /\ transmitted = 0
    /\ WsOpen
    /\ connectionStatus = "connected"

\* C24: in every reachable state the heartbeat timer is armed if and only if
\* the status is 'connected'.
C24_HeartbeatIffConnected == heartbeatInterval <=> connectionStatus = "connected"

\* C25: while the status is 'connected' no heartbeat tick can do anything but
\* raise missedHeartbeats by 1 (the ping is sent in the same branch), and no
\* frame of any kind, unparseable ones included, can arrive and leave
\* missedHeartbeats different from 0.
C25_TicksCountFramesReset ==
    connectionStatus = "connected"
       => /\ ~ENABLED (HeartbeatTick /\ missedHeartbeats' # missedHeartbeats + 1)
          /\ \A s \in SocketIds, kind \in MessageKinds :
                ~ENABLED (SocketMessage(s, kind) /\ missedHeartbeats' # 0)

\* C26: every open sets reconnectAttempts to 0 and reconnectDelay to the base
\* delay, no other step lowers the attempt counter, and a retry scheduled
\* with the counter at 0, the first since the service started or last
\* connected, is given the base delay.
C26_FirstRetryWaitsBase ==
    [][/\ (\E s \in SocketIds : SocketOpen(s))
          => (reconnectAttempts' = 0 /\ reconnectDelay' = baseReconnectDelay)
       /\ reconnectAttempts' < reconnectAttempts => \E s \in SocketIds : SocketOpen(s)
       /\ (Len(retryTimers') > Len(retryTimers) /\ reconnectAttempts = 0)
          => reconnectDelay = baseReconnectDelay]_vars

\* C28: the open, message, error and close events of a socket that is not
\* this.ws leave the status, the heartbeat and the retry schedule alone.
C28_StaleEventsIgnored ==
    [][\A s \in SocketIds :
          (/\ s # ws
           /\ \/ SocketOpen(s)
              \/ SocketError(s, NoJitter)
              \/ \E wasClean \in BOOLEAN : SocketClose(s, wasClean)
              \/ \E kind \in MessageKinds : SocketMessage(s, kind))
             => UNCHANGED <<connectionStatus, heartbeatInterval, missedHeartbeats,
                            retryTimers, reconnectAttempts>>]_vars

\* C29: when the status is 'connected' this.ws is an OPEN socket, and when
\* it is 'disconnected' or 'error' no socket the service created is OPEN.
C29_StatusMatchesSocket ==
    /\ connectionStatus = "connected" => WsOpen
    /\ connectionStatus \in {"disconnected", "error"}
          => \A s \in SocketIds : sockets[s].readyState # "OPEN"

\* C30: at most one retry timer is pending at any time.
C30_OneRetryPending == Len(retryTimers) <= 1

\* C27: reconnectDelay stays between the base and the maximal delay; the
\* failure of a retry replaces it by min(2 * reconnectDelay + jitter,
\* maxDelay) with a jitter >= 0; it changes in no other way but the reset of
\* an open, so it never decreases between two opens, and the delays given to
\* consecutive retries, which are its values when they are scheduled, are
\* non-decreasing and at most maxDelay.
C27_DelayBoundedMonotone ==
    [][/\ baseReconnectDelay <= reconnectDelay /\ reconnectDelay <= maxReconnectDelay
       /\ baseReconnectDelay <= reconnectDelay' /\ reconnectDelay' <= maxReconnectDelay
       /\ \A s \in SocketIds :
             (sockets[s].retry /\ sockets[s].readyState = "CONNECTING" /\ SocketError(s, Jitter))
                => \E j \in 0..(jitterRange - 1) :
                      reconnectDelay' = IF 2 * reconnectDelay + j <= maxReconnectDelay
                                        THEN 2 * reconnectDelay + j
                                        ELSE maxReconnectDelay
       /\ reconnectDelay' < reconnectDelay => ConnectionOpens
       /\ reconnectDelay' > reconnectDelay
             => \E s \in SocketIds : sockets[s].retry /\ SocketError(s, Jitter)]_vars

\* The fifth retry in a row has just failed and the delay is at its maximum.
C27_Witness ==
    /\ reconnectDelay = maxReconnectDelay
    /\ reconnectAttempts = maxReconnectAttempts
    /\ inTask # 0

\* The calls a log of status callbacks makes to one callback.
Calls(log, o) == {i \in 1..Len(log) : log[i].listener = o}

C22_ImmediateThenEachChange ==
    [][/\ \A o \in StatusCallbacks :
             OnStatusChange(o)
                => /\ notified' = <<[listener |-> o, status |-> connectionStatus,
                                     caught |-> FALSE]>>
                   /\ heard'[o] = connectionStatus
                   /\ \E i \in 1..Len(statusListeners') : statusListeners'[i] = o
       /\ connectionStatus' # connectionStatus
            => \A o \in StatusCallbacks :
                  /\ Cardinality(Calls(notified', o)) = (IF IsStatusListener(o) THEN 1 ELSE 0)
                  /\ \A i \in Calls(notified', o) : notified'[i].status = connectionStatus'
       /\ \A o \in StatusCallbacks :
             (~IsStatusListener(o) /\ ~OnStatusChange(o)) => Calls(notified', o) = {}
       /\ \A o \in StatusCallbacks :
             StatusUnsubscribe(o)
                => /\ \A i \in 1..Len(statusListeners') : statusListeners'[i] # o
                   /\ \A p \in StatusCallbacks \ {o} :
                         IsStatusListener(p)
                            => \E i \in 1..Len(statusListeners') : statusListeners'[i] = p]_vars

\* A change of status told to the listener that stayed, after the other one
\* called its unsubscribe function.
C22_Witness ==
    /\ heard["o1"] \notin {Unheard, connectionStatus}
    /\ ~IsStatusListener("o1")
    /\ Len(notified) = 1
    /\ notified[1].listener = "o2"
    /\ notified[1].status = connectionStatus

\* C23: the hook's history holds at most 50 entries, which are the latest
\* min(n, 50) of the n task messages handled, in arrival order; a frame of
\* a task type enters at the end and the entries before it are the latest
\* of those held; any other frame leaves the history as it is.
C23_HistoryIsLatestFifty ==
    [][/\ Len(taskEvents') <= 50
       /\ Len(taskEvents') = Min(arrivals', 50)
       /\ \A i \in 1..Len(taskEvents') :
             /\ taskEvents'[i].type \in TaskTypes
             /\ taskEvents'[i].arrival = arrivals' - Len(taskEvents') + i
       /\ \A s \in SocketIds, kind \in HistoryKinds :
             SocketMessage(s, kind)
                => IF /\ Parses(kind)
                      /\ Parse(kind).type \in TaskTypes
                      /\ HookHandler \in Registered(listeners, "message")
                   THEN LET n == Len(taskEvents')
                        IN  /\ arrivals' = arrivals + 1
                            /\ n >= 1
                            /\ taskEvents'[n].type = Parse(kind).type
                            /\ taskEvents'[n].value = Parse(kind).value
                            /\ \A i \in 1..(n - 1) :
                                  taskEvents'[i] = taskEvents[Len(taskEvents) - (n - 1) + i]
                   ELSE UNCHANGED <<taskEvents, arrivals>>]_vars

\* A full history whose oldest entries were evicted.
C23_Witness ==
    /\ Len(taskEvents) = 50
    /\ arrivals > 50
    /\ taskEvents[1].arrival = arrivals - 49
    /\ taskEvents[50].arrival = arrivals

====
